---- MODULE Spec2Model ----
(***************************************************************************)
(* Model of the structural health monitoring server (src/server.js): the   *)
(* in-memory store localDataStore.sensorData and the four routes           *)
(*   POST /api/sensor-data            (Accept)                             *)
(*   GET  /api/sensor-data            (Query)                              *)
(*   GET  /api/sensor-data/latest     (QueryLatest)                        *)
(*   GET  /api/sensor-data/download   (Export)                             *)
(* A POST and the first two GETs are handled in one step of the event      *)
(* loop; the download gives the loop back while its file is written and    *)
(* while it is sent.  res is the response sent last and req the request    *)
(* the server worked on last.                                              *)
(***************************************************************************)
EXTENDS Integers, Sequences, FiniteSets, TLC

(***************************************************************************)
(* Bounds of the model.                                                    *)
(***************************************************************************)
\* Successful POSTs in one run; above the capacity, so that eviction happens.
MaxAccepts == 51
\* Requests of one run that leave the ordinary course: a payload other than
\* Baseline, a clock that did not advance since the previous reading was
\* stamped, a clock that advanced between the two clock reads of one
\* reading, a download, or the dashboard being opened.
MaxDeviations == 1
\* Readings stored after the first such request of a run.
MaxTail == 1
\* The wall clock (ms since the epoch) when the server starts.
StartMs == 970
\* SpecDashboard, the runs with the dashboard: the fetches the dashboard
\* starts in one run, and the readings the server stores in one run, above
\* the 20 the dashboard asks for.
MaxFetches == 2
MaxPolledAccepts == 21
\* SpecExports, the runs with downloads that overlap: the downloads of one
\* run and the readings stored in it.
MaxExports == 2
MaxExportAccepts == 2

(***************************************************************************)
(* Program constants.                                                      *)
(***************************************************************************)
\* "Keep only latest 50 records in memory"
Capacity == 50
\* parseInt(req.query.limit) || 10
DefaultLimit == 10
\* getISTDateTime formats to the second
MsPerSecond == 1000
\* Asia/Kolkata is UTC+05:30
ISTOffsetSeconds == 19800
SecondsPerMinute == 60
SecondsPerHour == 3600
SecondsPerDay == 86400
\* parseInt and Number read decimal numerals
Radix == 10

Min(a, b) == IF a < b THEN a ELSE b
Max(a, b) == IF a > b THEN a ELSE b

(***************************************************************************)
(* JavaScript values.  A string is the sequence of its characters; a       *)
(* number is either NaN or an integer.                                     *)
(***************************************************************************)
NaN == [nan |-> TRUE, val |-> 0]
Num(n) == [nan |-> FALSE, val |-> n]
\* A number as a property of a stored object.
NumberValue(n) == IF n.nan THEN "NaN" ELSE n.val

Undefined == [type |-> "undefined", num |-> 0, str |-> <<>>]
Null == [type |-> "null", num |-> 0, str |-> <<>>]
JsNumber(n) == [type |-> "number", num |-> n, str |-> <<>>]
JsString(s) == [type |-> "string", num |-> 0, str |-> s]

DigitChars == <<"0", "1", "2", "3", "4", "5", "6", "7", "8", "9">>
IsDigit(c) == \E d \in 1..Len(DigitChars) : DigitChars[d] = c
DigitVal(c) == (CHOOSE d \in 1..Len(DigitChars) : DigitChars[d] = c) - 1

\* The length of the longest prefix of s made of digits.
RECURSIVE DigitPrefixLen(_)
DigitPrefixLen(s) ==
    IF s = <<>> \/ ~IsDigit(Head(s)) THEN 0 ELSE 1 + DigitPrefixLen(Tail(s))

\* The value of a sequence of digits, most significant first.
RECURSIVE DigitsValue(_)
DigitsValue(s) ==
    IF s = <<>> THEN 0
    ELSE DigitsValue(SubSeq(s, 1, Len(s) - 1)) * Radix + DigitVal(s[Len(s)])

\* parseInt(x): an optional sign and the longest run of digits after it;
\* NaN when x is no string or no digit follows.
ParseInt(x) ==
    IF x.type = "number" THEN Num(x.num)
    ELSE IF x.type # "string" THEN NaN
    ELSE LET neg == x.str # <<>> /\ Head(x.str) = "-"
             body == IF neg THEN Tail(x.str) ELSE x.str
             n == DigitPrefixLen(body)
         IN  IF n = 0 THEN NaN
             ELSE Num((IF neg THEN -1 ELSE 1) * DigitsValue(SubSeq(body, 1, n)))

\* Number(x): the whole string has to be a numeral; "" and null give 0.
ToNumber(x) ==
    CASE x.type = "number" -> Num(x.num)
      [] x.type = "null" -> Num(0)
      [] x.type = "undefined" -> NaN
      [] x.type = "string" ->
            LET neg == x.str # <<>> /\ Head(x.str) = "-"
                body == IF neg THEN Tail(x.str) ELSE x.str
            IN  IF x.str = <<>> THEN Num(0)
                ELSE IF body # <<>> /\ DigitPrefixLen(body) = Len(body)
                     THEN Num((IF neg THEN -1 ELSE 1) * DigitsValue(body))
                     ELSE NaN

\* x || d on numbers: NaN and 0 are falsy.
OrDefault(x, d) == IF x.nan \/ x.val = 0 THEN d ELSE x.val

\* Array.prototype.slice(start, end) on an array of length len: a negative
\* index counts from the end, and both are clamped to 0..len.
RelativeIndex(k, len) == IF k < 0 THEN Max(len + k, 0) ELSE Min(k, len)
Slice(arr, start, end) ==
    LET from == RelativeIndex(start, Len(arr))
        to == RelativeIndex(end, Len(arr))
    IN  IF from >= to THEN <<>> ELSE SubSeq(arr, from + 1, to)

\* push in place of unshift: the new element goes to the old end.
UnshiftAsPush(arr, x) == arr \o <<x>>
\* Array.prototype.unshift(x)
Unshift(arr, x) == <<x>> \o arr

(***************************************************************************)
(* The clock.                                                              *)
(***************************************************************************)
\* Two digits, as '2-digit' asks for.
Pad2(n) == IF n < Radix THEN "0" \o ToString(n) ELSE ToString(n)

\* The calendar date of a day counted from 1970-01-01.
CivilFromDays(days) ==
    LET z == days + 719468
        era == z \div 146097
        doe == z - era * 146097
        yoe == (doe - doe \div 1460 + doe \div 36524 - doe \div 146096) \div 365
        doy == doe - (365 * yoe + yoe \div 4 - yoe \div 100)
        mp == (5 * doy + 2) \div 153
        m == IF mp < 10 THEN mp + 3 ELSE mp - 9
    IN  [year |-> yoe + era * 400 + (IF m <= 2 THEN 1 ELSE 0),
         month |-> m,
         day |-> doy - (153 * mp + 2) \div 5 + 1]

\* getISTDateTime(): "YYYY-MM-DD, HH:MM:SS" in Asia/Kolkata, to the second.
getISTDateTime(ms) ==
    LET s == ms \div MsPerSecond + ISTOffsetSeconds
        date == CivilFromDays(s \div SecondsPerDay)
    IN  ToString(date.year) \o "-" \o Pad2(date.month) \o "-" \o Pad2(date.day)
        \o ", " \o Pad2((s % SecondsPerDay) \div SecondsPerHour)
        \o ":" \o Pad2((s % SecondsPerHour) \div SecondsPerMinute)
        \o ":" \o Pad2(s % SecondsPerMinute)

\* Date.now().toString()
DateNowString(ms) == ToString(ms)

(***************************************************************************)
(* POST /api/sensor-data                                                   *)
(***************************************************************************)
Fields == {"strain", "vibration", "displacement", "acceleration"}

\* The test with === undefined alone.
IsMissingUndefinedOnly(v) == v.type = "undefined"
\* The test written as !value, which takes 0 for a missing field.
IsMissingFalsy(v) ==
    \/ v.type = "undefined" \/ v.type = "null"
    \/ (v.type = "number" /\ v.num = 0)
    \/ (v.type = "string" /\ v.str = <<>>)
\* The test of lines 62-65 on one field.
IsMissing(v) == v.type = "undefined" \/ v.type = "null"

MissingRequired(body) ==
    \/ IsMissing(body.strain)
    \/ IsMissing(body.vibration)
    \/ IsMissing(body.displacement)
    \/ IsMissing(body.acceleration)

\* The characters of a string put together.
RECURSIVE JoinChars(_)
JoinChars(s) == IF s = <<>> THEN "" ELSE Head(s) \o JoinChars(Tail(s))
\* newData built over the body: a timestamp or an id the caller sent wins.
NewDataFromBody(body, t1, t2) ==
    [strain |-> NumberValue(ToNumber(body.strain)),
     vibration |-> NumberValue(ToNumber(body.vibration)),
     displacement |-> NumberValue(ToNumber(body.displacement)),
     acceleration |-> NumberValue(ToNumber(body.acceleration)),
     timestamp |-> IF body.timestamp.type = "string"
                   THEN JoinChars(body.timestamp.str) ELSE getISTDateTime(t1),
     id |-> IF body.id.type = "string"
            THEN JoinChars(body.id.str) ELSE DateNowString(t2)]
\* newData, with the clock read once for the timestamp and once for the id.
NewData(body, t1, t2) ==
    [strain |-> NumberValue(ToNumber(body.strain)),
     vibration |-> NumberValue(ToNumber(body.vibration)),
     displacement |-> NumberValue(ToNumber(body.displacement)),
     acceleration |-> NumberValue(ToNumber(body.acceleration)),
     timestamp |-> getISTDateTime(t1),
     id |-> DateNowString(t2)]

\* The slice computed and its result dropped.
KeepLatestNoAssign(arr) == arr
\* slice(-50) in place of slice(0, 50): the newest is dropped at the cap.
KeepLatestFromEnd(arr) == IF Len(arr) > Capacity THEN Slice(arr, -Capacity, Len(arr)) ELSE arr
\* "Keep only latest 50 records in memory"
KeepLatest(arr) == IF Len(arr) > Capacity THEN Slice(arr, 0, Capacity) ELSE arr

\* The payloads the model posts: the ordinary one, one whose numbers arrive
\* as strings and that brings a timestamp and an id of its own, and one for
\* every required field left out or null.  A property the body does not
\* have reads as undefined.
Baseline ==
    [strain |-> JsNumber(10), vibration |-> JsNumber(0),
     displacement |-> JsNumber(3), acceleration |-> JsNumber(1),
     timestamp |-> Undefined, id |-> Undefined]
StringPayload ==
    [strain |-> JsString(<<"1", "2">>), vibration |-> JsString(<<"-", "4">>),
     displacement |-> JsString(<<>>), acceleration |-> JsNumber(7),
     timestamp |-> JsString(<<"x">>), id |-> JsString(<<"7">>)]
ValidPayloads == {Baseline, StringPayload}
InvalidPayloads ==
    {[Baseline EXCEPT !.strain = Undefined],
     [Baseline EXCEPT !.vibration = Null],
     [Baseline EXCEPT !.displacement = Undefined],
     [Baseline EXCEPT !.acceleration = Null]}
Payloads == ValidPayloads \cup InvalidPayloads

\* The values of ?limit= the model sends: absent, "abc", "0", "-3", "20"
\* and "60".
Limits ==
    {Undefined,
     JsString(<<"a", "b", "c">>), JsString(<<"0">>), JsString(<<"-", "3">>),
     JsString(<<"2", "0">>), JsString(<<"6", "0">>)}

(***************************************************************************)
(* GET /api/sensor-data/download: the worksheet                            *)
(***************************************************************************)
\* worksheet.columns
Columns ==
    <<[header |-> "Timestamp", key |-> "timestamp"],
      [header |-> "Strain", key |-> "strain"],
      [header |-> "Vibration", key |-> "vibration"],
      [header |-> "Displacement", key |-> "displacement"],
      [header |-> "Acceleration", key |-> "acceleration"],
      [header |-> "ID", key |-> "id"]>>

\* Row 1, written by the assignment to worksheet.columns and made bold by
\* worksheet.getRow(1).font.
HeaderRow ==
    [cells |-> [c \in 1..Len(Columns) |-> Columns[c].header], bold |-> TRUE]

\* worksheet.addRow(data): the cell of a column is the property named by its key.
AddRow(data) ==
    [cells |-> [c \in 1..Len(Columns) |-> data[Columns[c].key]], bold |-> FALSE]

\* The rows added from the old end of the store to the new one.
WorksheetOldestFirst(arr) ==
    <<HeaderRow>> \o [i \in 1..Len(arr) |-> AddRow(arr[Len(arr) + 1 - i])]
\* The worksheet after the forEach over the store.
Worksheet(arr) == <<HeaderRow>> \o [i \in 1..Len(arr) |-> AddRow(arr[i])]

\* data/sensor_data.xlsx before the first export.
NoFile == <<>>

VARIABLES
    sensorData,   \* localDataStore.sensorData, newest first
    now,          \* the latest value read from the wall clock
    file,         \* the rows of data/sensor_data.xlsx, NoFile while it does not exist
    downloads,    \* the download requests in flight, oldest first
    req,          \* the request the server worked on last
    res,          \* the response sent last
    accepted,     \* history: every reading stored so far, oldest first
    deviations,   \* history: the requests counted against MaxDeviations
    tail,         \* history: the readings counted against MaxTail
    revision,     \* the dashboard source that runs: "App.jsx" or "part_000"
    mounted,      \* the dashboard's effect has run and its interval is set
    effectStale,  \* fetchData changed identity since the effect ran last
    fetching,     \* the dashboard's requests in flight
    fetched,      \* history: the fetches the dashboard has started
    fetchCause,   \* history: what started the latest fetch
    appSensorData,\* the dashboard's sensorData state, the window it plots
    latestData,   \* the dashboard's latestData state, <<>> for null
    alerts,       \* the triggered flag of each sensor's alert
    error,        \* the dashboard's error state is set
    loading       \* the dashboard's loading state

serverVars == <<sensorData, now, file, downloads, req, res, accepted, deviations, tail>>
dashVars == <<revision, mounted, effectStale, fetching, fetched, fetchCause,
              appSensorData, latestData, alerts, error, loading>>
vars == <<serverVars, dashVars>>

NoRequest == [op |-> "none"]
NoResponse == [op |-> "none", status |-> 0]

\* const [alerts, setAlerts] = useState({...}): nothing triggered.
NoAlerts == [f \in Fields |-> FALSE]

\* The dashboard before its first effect has run.
Unmounted ==
    /\ mounted = FALSE
    /\ effectStale = FALSE
    /\ fetching = 0
    /\ fetched = 0
    /\ fetchCause = "none"
    /\ appSensorData = <<>>
    /\ latestData = <<>>
    /\ alerts = NoAlerts
    /\ error = FALSE
    /\ loading = TRUE

Init ==
    /\ sensorData = <<>>
    /\ now = StartMs
    /\ file = NoFile
    /\ downloads = <<>>
    /\ req = NoRequest
    /\ res = NoResponse
    /\ accepted = <<>>
    /\ deviations = 0
    /\ tail = 0
    /\ revision = "App.jsx"
    /\ Unmounted

PostRejected(body) ==
    /\ MissingRequired(body)
    /\ req' = [op |-> "post", body |-> body]
    /\ res' = [op |-> "post", status |-> 400,
               body |-> [success |-> FALSE, message |-> "Missing required fields"]]
    /\ UNCHANGED <<sensorData, now, file, downloads, accepted, deviations, tail>>

\* The handler giving the event loop back between unshift and the
\* truncation, which this step leaves undone.
PostStoredUntruncated(body, t1, t2) ==
    /\ ~MissingRequired(body)
    /\ Len(accepted) < MaxAccepts
    /\ LET newData == NewData(body, t1, t2)
           cost == (IF body # Baseline THEN 1 ELSE 0)
                   + (IF t1 = now THEN 1 ELSE 0)
                   + (IF t2 # t1 THEN 1 ELSE 0)
       IN  /\ deviations + cost <= MaxDeviations
           /\ deviations > 0 => tail < MaxTail
           /\ deviations' = deviations + cost
           /\ tail' = IF deviations > 0 THEN tail + 1 ELSE 0
           /\ sensorData' = IF Len(sensorData) > Capacity
                             THEN Unshift(KeepLatest(sensorData), newData)
                             ELSE Unshift(sensorData, newData)
           /\ accepted' = Append(accepted, newData)
           /\ req' = [op |-> "post", body |-> body]
           /\ res' = [op |-> "post", status |-> 200,
                      body |-> [success |-> TRUE, latestData |-> newData]]
    /\ now' = t2
    /\ UNCHANGED <<file, downloads>>

PostStored(body, t1, t2) ==
    /\ ~MissingRequired(body)
    /\ Len(accepted) < MaxAccepts
    /\ LET newData == NewData(body, t1, t2)
           cost == (IF body # Baseline THEN 1 ELSE 0)
                   + (IF t1 = now THEN 1 ELSE 0)
                   + (IF t2 # t1 THEN 1 ELSE 0)
       IN  /\ deviations + cost <= MaxDeviations
           /\ deviations > 0 => tail < MaxTail
           /\ deviations' = deviations + cost
           /\ tail' = IF deviations > 0 THEN tail + 1 ELSE 0
           /\ sensorData' = KeepLatest(Unshift(sensorData, newData))
           /\ accepted' = Append(accepted, newData)
           /\ req' = [op |-> "post", body |-> body]
           /\ res' = [op |-> "post", status |-> 200,
                      body |-> [success |-> TRUE, latestData |-> newData]]
    /\ now' = t2
    /\ UNCHANGED <<file, downloads>>

PostSensorData ==
    \E body \in Payloads :
        \/ PostRejected(body)
        \/ \E t1 \in {now, now + 1} : \E t2 \in {t1, t1 + 1} :
               PostStored(body, t1, t2)

(***************************************************************************)
(* GET /api/sensor-data                                                    *)
(***************************************************************************)
\* const limit = parseInt(req.query.limit) || 10
EffectiveLimit(q) == OrDefault(ParseInt(q), DefaultLimit)

\* slice(0, limit - 1): one element short.
ReadRecentOneShort(arr, limit) == Slice(arr, 0, limit - 1)
\* localDataStore.sensorData.slice(0, limit)
ReadRecent(arr, limit) == Slice(arr, 0, limit)

\* splice(0, limit) in place of slice(0, limit): what is returned is taken
\* out of the store.
GetSensorDataSplice ==
    \E q \in Limits :
        /\ req' = [op |-> "query", limit |-> q]
        /\ res' = [op |-> "query", status |-> 200,
                   body |-> [success |-> TRUE,
                             data |-> ReadRecent(sensorData, EffectiveLimit(q))]]
        /\ sensorData' = SubSeq(sensorData,
                                Len(ReadRecent(sensorData, EffectiveLimit(q))) + 1,
                                Len(sensorData))
        /\ UNCHANGED <<now, file, downloads, accepted, deviations, tail>>
GetSensorData ==
    \E q \in Limits :
        /\ req' = [op |-> "query", limit |-> q]
        /\ res' = [op |-> "query", status |-> 200,
                   body |-> [success |-> TRUE,
                             data |-> ReadRecent(sensorData, EffectiveLimit(q))]]
        /\ UNCHANGED <<sensorData, now, file, downloads, accepted, deviations, tail>>

(***************************************************************************)
(* GET /api/sensor-data/latest                                             *)
(***************************************************************************)
\* The element at the old end of the store in place of the one at index 0.
LatestResponseOldest(arr) ==
    IF Len(arr) > 0
    THEN [op |-> "latest", status |-> 200,
          body |-> [success |-> TRUE, data |-> arr[Len(arr)]]]
    ELSE [op |-> "latest", status |-> 404,
          body |-> [success |-> FALSE, message |-> "No data available"]]
LatestResponse(arr) ==
    IF Len(arr) > 0
    THEN [op |-> "latest", status |-> 200,
          body |-> [success |-> TRUE, data |-> arr[1]]]
    ELSE [op |-> "latest", status |-> 404,
          body |-> [success |-> FALSE, message |-> "No data available"]]

GetLatest ==
    /\ req' = [op |-> "latest"]
    /\ res' = LatestResponse(sensorData)
    /\ UNCHANGED <<sensorData, now, file, downloads, accepted, deviations, tail>>

(***************************************************************************)
(* GET /api/sensor-data/download                                           *)
(* The handler runs to its await: it builds the workbook from the store    *)
(* and starts writing it.  When the write has finished the file holds the  *)
(* workbook; res.download then reads the file and sends what it reads.     *)
(***************************************************************************)
GetDownloadBuild ==
    /\ deviations < MaxDeviations
    /\ deviations' = deviations + 1
    /\ downloads' = Append(downloads,
                           [stage |-> "writing", workbook |-> Worksheet(sensorData)])
    /\ req' = [op |-> "download"]
    /\ UNCHANGED <<sensorData, now, file, res, accepted, tail>>

\* await workbook.xlsx.writeFile(filePath) completes for the i-th request in flight.
GetDownloadWritten(i) ==
    /\ downloads[i].stage = "writing"
    /\ file' = downloads[i].workbook
    /\ downloads' = [downloads EXCEPT ![i].stage = "sending"]
    /\ req' = [op |-> "download-written"]
    /\ UNCHANGED <<sensorData, now, res, accepted, deviations, tail>>

\* res.download(filePath, 'sensor_data.xlsx') has sent the file.
GetDownloadSent(i) ==
    /\ downloads[i].stage = "sending"
    /\ res' = [op |-> "download", status |-> 200,
               body |-> [filename |-> "sensor_data.xlsx", document |-> file]]
    /\ downloads' = SubSeq(downloads, 1, i - 1) \o SubSeq(downloads, i + 1, Len(downloads))
    /\ req' = [op |-> "download-sent", workbook |-> downloads[i].workbook]
    /\ UNCHANGED <<sensorData, now, file, accepted, deviations, tail>>

GetDownload ==
    \/ GetDownloadBuild
    \/ \E i \in 1..Len(downloads) : GetDownloadWritten(i)
    \/ \E i \in 1..Len(downloads) : GetDownloadSent(i)

Next ==
    \/ PostSensorData /\ UNCHANGED dashVars
    \/ GetSensorData /\ UNCHANGED dashVars
    \/ GetLatest /\ UNCHANGED dashVars
    \/ GetDownload /\ UNCHANGED dashVars

Spec == Init /\ [][Next]_vars

(***************************************************************************)
(* Downloads that overlap: the server with room for MaxExports downloads   *)
(* in one run, taking POSTs and downloads only.                            *)
(***************************************************************************)
InitExports ==
    /\ sensorData = <<>>
    /\ now = StartMs
    /\ file = NoFile
    /\ downloads = <<>>
    /\ req = NoRequest
    /\ res = NoResponse
    /\ accepted = <<>>
    /\ deviations = MaxDeviations - MaxExports
    /\ tail = 0
    /\ revision = "App.jsx"
    /\ Unmounted

NextExports ==
    \/ PostSensorData /\ Len(accepted) < MaxExportAccepts /\ UNCHANGED dashVars
    \/ GetDownload /\ UNCHANGED dashVars

SpecExports == InitExports /\ [][NextExports]_vars

(***************************************************************************)
(* The dashboard (src/sensor-dashboard/src/App.jsx, and its earlier        *)
(* revision src/unnamed/part_000).  Its effect runs once on mount: it      *)
(* calls fetchData and sets an interval that calls fetchData again.  A     *)
(* fetch is started in one step and settles in a later one, with the       *)
(* server's answer or with a failure.  In App.jsx fetchData is a           *)
(* useCallback over checkAlerts, which is a useCallback over alerts, and    *)
(* the effect depends on fetchData; part_000 has neither alerts nor        *)
(* dependencies.  The server takes POSTs beside it.                       *)
(***************************************************************************)
Revisions == {"App.jsx", "part_000"}

\* axios.get('http://localhost:3000/api/sensor-data?limit=20')
PollLimit == JsString(<<"2", "0">>)

\* prev.slice(0, 19)
PlaceholderKeep == 19

\* The threshold of each sensor's alert.
Thresholds ==
    [strain |-> 1000, vibration |-> 500, displacement |-> 100, acceleration |-> 200]

\* The normal operating range of each sensor, low end and high end.
NormalRanges ==
    [strain |-> <<400, 800>>, vibration |-> <<100, 300>>,
     displacement |-> <<20, 60>>, acceleration |-> <<50, 150>>]

\* What Math.random() returns, in hundredths.
RandomDraws == {0, 50}

\* The dashboard's getISTDateTime(): toLocaleString('en-US') in Asia/Kolkata
\* on the 24-hour clock, "M/D/YYYY, HH:MM:SS".
appGetISTDateTime(ms) ==
    LET s == ms \div MsPerSecond + ISTOffsetSeconds
        date == CivilFromDays(s \div SecondsPerDay)
    IN  ToString(date.month) \o "/" \o ToString(date.day) \o "/" \o ToString(date.year)
        \o ", " \o Pad2((s % SecondsPerDay) \div SecondsPerHour)
        \o ":" \o Pad2((s % SecondsPerHour) \div SecondsPerMinute)
        \o ":" \o Pad2(s % SecondsPerMinute)

\* generateRandomData(): draw[f] is the value Math.random() returned for
\* field f; the clock is read for the timestamp and again for the id.
generateRandomData(draw, t1, t2) ==
    LET value(f) == (draw[f] * (NormalRanges[f][2] - NormalRanges[f][1])) \div 100
                    + NormalRanges[f][1]
    IN  [strain |-> value("strain"),
         vibration |-> value("vibration"),
         displacement |-> value("displacement"),
         acceleration |-> value("acceleration"),
         timestamp |-> appGetISTDateTime(t1),
         id |-> DateNowString(t2)]

\* Array.prototype.reverse()
Reverse(arr) == [i \in 1..Len(arr) |-> arr[Len(arr) + 1 - i]]

\* newAlerts of checkAlerts(data): each sensor's triggered flag.
checkAlerts(data) == [f \in Fields |-> data[f] > Thresholds[f]]
hasAlert(data) == \E f \in Fields : checkAlerts(data)[f]

\* fetchData() up to its await: setLoading(true) and the request sent.
StartFetch(cause) ==
    /\ fetched < MaxFetches
    /\ fetched' = fetched + 1
    /\ fetching' = fetching + 1
    /\ fetchCause' = cause
    /\ loading' = TRUE

\* The effect runs for the first time.
Mount ==
    /\ ~mounted
    /\ deviations < MaxDeviations
    /\ deviations' = deviations + 1
    /\ mounted' = TRUE
    /\ StartFetch("mount")
    /\ UNCHANGED <<sensorData, now, file, downloads, req, res, accepted, tail>>
    /\ UNCHANGED <<revision, effectStale, appSensorData, latestData, alerts, error>>

\* setInterval(fetchData, 5000) fires.
IntervalTick ==
    /\ mounted
    /\ StartFetch("interval")
    /\ UNCHANGED serverVars
    /\ UNCHANGED <<revision, mounted, effectStale, appSensorData, latestData, alerts, error>>

\* After a render in which fetchData changed identity the effect is cleaned
\* up (clearInterval) and runs again: fetchData() and a new interval.
EffectRerun ==
    /\ mounted
    /\ effectStale
    /\ effectStale' = FALSE
    /\ StartFetch("effect")
    /\ UNCHANGED serverVars
    /\ UNCHANGED <<revision, mounted, appSensorData, latestData, alerts, error>>

\* What calling checkAlerts(data) leaves behind: setAlerts(newAlerts) with
\* a new object, so checkAlerts and fetchData are new functions in the next
\* render, and setError if a threshold is exceeded.  part_000 has none of it.
AlertsChecked(data) ==
    IF revision = "App.jsx"
    THEN /\ alerts' = checkAlerts(data)
         /\ error' = (error \/ hasAlert(data))
         /\ effectStale' = TRUE
    ELSE UNCHANGED <<alerts, error, effectStale>>

\* The server answers a request in flight and the try block runs.  data is
\* the array of the response; reverse() turns it round in place, so that
\* data[0] is read from the reversed array.
FetchSucceeded ==
    /\ fetching > 0
    /\ fetching' = fetching - 1
    /\ LET sent == ReadRecent(sensorData, EffectiveLimit(PollLimit))
           data == Reverse(sent)
       IN  /\ req' = [op |-> "poll", limit |-> PollLimit]
           /\ res' = [op |-> "query", status |-> 200,
                      body |-> [success |-> TRUE, data |-> sent]]
           /\ appSensorData' = data
           /\ IF Len(data) > 0
              THEN /\ latestData' = <<data[1]>>
                   /\ AlertsChecked(data[1])
              ELSE UNCHANGED <<latestData, alerts, error, effectStale>>
    /\ loading' = FALSE
    /\ UNCHANGED <<sensorData, now, file, downloads, accepted, deviations, tail>>
    /\ UNCHANGED <<revision, mounted, fetched, fetchCause>>

\* A request in flight fails and the catch block runs.
FetchFailed ==
    /\ fetching > 0
    /\ fetching' = fetching - 1
    /\ req' = [op |-> "poll-failed"]
    /\ IF revision = "App.jsx"
       THEN \E draw \in [Fields -> RandomDraws] :
            \E t1 \in {now, now + 1} : \E t2 \in {t1, t1 + 1} :
                LET randomData == generateRandomData(draw, t1, t2)
                    cost == (IF t1 = now THEN 1 ELSE 0) + (IF t2 # t1 THEN 1 ELSE 0)
                IN  /\ deviations + cost <= MaxDeviations
                    /\ deviations' = deviations + cost
                    /\ now' = t2
                    /\ appSensorData' =
                           <<randomData>> \o Slice(appSensorData, 0, PlaceholderKeep)
                    /\ latestData' = <<randomData>>
                    /\ AlertsChecked(randomData)
       ELSE UNCHANGED <<now, deviations, appSensorData, latestData, alerts, error,
                        effectStale>>
    /\ loading' = FALSE
    /\ UNCHANGED <<sensorData, file, downloads, res, accepted, tail>>
    /\ UNCHANGED <<revision, mounted, fetched, fetchCause>>

InitDashboard ==
    /\ sensorData = <<>>
    /\ now = StartMs
    /\ file = NoFile
    /\ downloads = <<>>
    /\ req = NoRequest
    /\ res = NoResponse
    /\ accepted = <<>>
    /\ deviations = 0
    /\ tail = 0
    /\ revision \in Revisions
    /\ Unmounted

NextDashboard ==
    \/ PostSensorData /\ Len(accepted) < MaxPolledAccepts /\ UNCHANGED dashVars
    \/ Mount
    \/ IntervalTick
    \/ EffectRerun
    \/ FetchSucceeded
    \/ FetchFailed

SpecDashboard == InitDashboard /\ [][NextDashboard]_vars

(***************************************************************************)
(* Properties                                                              *)
(***************************************************************************)
\* The step just taken stored a reading: a POST answered 200.
Stored == req.op = "post" /\ res.status = 200

\* C1: in every reachable state the store holds at most 50 readings.
StoreAtMostCapacity == Len(sensorData) <= Capacity
\* More readings were accepted than the store keeps.
StoreAtMostCapacityWitness == Len(accepted) > Capacity /\ Len(sensorData) = Capacity

\* C2: after N accepted readings the store has min(N, 50) elements and is the
\* last min(N, 50) accepted readings, newest at index 0.
RetainedIsLastAccepted ==
    LET n == Len(accepted)
        k == Min(n, Capacity)
    IN  /\ Len(sensorData) = k
        /\ \A i \in 1..k : sensorData[i] = accepted[n + 1 - i]
RetainedIsLastAcceptedWitness ==
    /\ Len(accepted) = Capacity + 1
    /\ sensorData[Capacity] = accepted[2]
    /\ sensorData[1] # sensorData[Capacity]

\* C3: a POST accepted while the store holds 50 readings removes the reading
\* at index 49 and nothing else; the other 49 keep their order and move one
\* position toward the old end, behind the new reading.
EvictsExactlyOldest ==
    [][(Len(sensorData) = Capacity /\ req'.op = "post" /\ res'.status = 200) =>
          /\ Len(sensorData') = Capacity
          /\ sensorData'[1] = res'.body.latestData
          /\ \A i \in 1..(Capacity - 1) : sensorData'[i + 1] = sensorData[i]]_vars
EvictsExactlyOldestWitness ==
    Stored /\ Len(accepted) > Capacity /\ sensorData[2] = accepted[Len(accepted) - 1]

\* The positive integers among Limits, each with the number it denotes.
PositiveLimits == {<<JsString(<<"2", "0">>), 20>>, <<JsString(<<"6", "0">>), 60>>}

\* C4: GET /api/sensor-data?limit=N with N a positive integer returns the
\* first min(N, size) elements of the store, never more than min(N, 50).
QueryReturnsPrefix ==
    \A pl \in PositiveLimits :
        (req.op = "query" /\ req.limit = pl[1]) =>
            /\ res.op = "query" /\ res.status = 200 /\ res.body.success
            /\ res.body.data = SubSeq(sensorData, 1, Min(pl[2], Len(sensorData)))
            /\ Len(res.body.data) <= Min(pl[2], Capacity)
\* A query that cut the store short, and the store full.
QueryReturnsPrefixWitness ==
    /\ req.op = "query" /\ req.limit = JsString(<<"2", "0">>)
    /\ Len(sensorData) = Capacity /\ Len(res.body.data) = 20

\* The values of Limits that are missing, non-numeric, zero or negative.
InvalidLimits ==
    {Undefined, JsString(<<"a", "b", "c">>), JsString(<<"0">>), JsString(<<"-", "3">>)}

\* C5: a limit that is missing, non-numeric, zero or negative gives the
\* result of limit = 10, the first min(10, size) elements of the store.
InvalidLimitActsAsDefault ==
    (req.op = "query" /\ req.limit \in InvalidLimits) =>
        res.body.data = SubSeq(sensorData, 1, Min(DefaultLimit, Len(sensorData)))

\* A required field of the payload is undefined or null.
HasMissingField(body) == \E f \in Fields : body[f] \in {Undefined, Null}

\* C6: a POST with a required field missing or null is answered 400 with
\* success false and leaves the store as it was.
RejectedLeavesStore ==
    [][(req'.op = "post" /\ HasMissingField(req'.body)) =>
          /\ res'.op = "post" /\ res'.status = 400 /\ ~res'.body.success
          /\ sensorData' = sensorData]_vars
RejectedLeavesStoreWitness ==
    /\ req.op = "post" /\ HasMissingField(req.body) /\ res.status = 400
    /\ Len(sensorData) > 0

\* Every required field of the payload is a number.
AllNumbers(body) == \A f \in Fields : body[f].type = "number"

\* C7: a POST whose four fields are numbers, zero included, is answered 200;
\* latestData is the element at index 0 of the store, has id and timestamp
\* set and carries the four numbers as they were sent.
AcceptedIsStoredAsSent ==
    (req.op = "post" /\ AllNumbers(req.body)) =>
        /\ res.op = "post" /\ res.status = 200 /\ res.body.success
        /\ sensorData # <<>> /\ res.body.latestData = sensorData[1]
        /\ res.body.latestData.id # "" /\ res.body.latestData.timestamp # ""
        /\ \A f \in Fields : res.body.latestData[f] = req.body[f].num
\* A payload with a zero in it was stored.
AcceptedIsStoredAsSentWitness ==
    /\ Stored /\ AllNumbers(req.body)
    /\ \E f \in Fields : req.body[f].num = 0
    /\ Len(sensorData) > 1

\* C8: GET /api/sensor-data/latest answers 404 with success false exactly
\* when the store is empty, and otherwise 200 with the reading accepted
\* last, the element at index 0.
LatestIsNewestOr404 ==
    req.op = "latest" =>
        /\ res.op = "latest"
        /\ (res.status = 404) <=> (sensorData = <<>>)
        /\ res.status = 404 => ~res.body.success
        /\ sensorData # <<>> =>
              /\ res.status = 200 /\ res.body.success
              /\ res.body.data = sensorData[1]
              /\ res.body.data = accepted[Len(accepted)]
LatestIsNewestOr404Witness ==
    /\ req.op = "latest" /\ res.status = 200
    /\ Len(sensorData) > 1 /\ sensorData[1] # sensorData[Len(sensorData)]

\* C9: no two readings held in the store have the same id.
StoredIdsUnique ==
    \A i, j \in 1..Len(sensorData) : i # j => sensorData[i].id # sensorData[j].id

\* The header the export is to carry.
ExportHeader == <<"Timestamp", "Strain", "Vibration", "Displacement", "Acceleration", "ID">>
\* The row of one reading under that header.
ExportRow(d) == <<d.timestamp, d.strain, d.vibration, d.displacement, d.acceleration, d.id>>

\* C10: the document an export builds from a store of size S has S + 1
\* rows: the header Timestamp, Strain, Vibration, Displacement,
\* Acceleration, ID, then one row per stored reading in store order.
ExportHasHeaderAndRows ==
    req.op = "download" =>
        LET doc == downloads[Len(downloads)].workbook
        IN  /\ Len(doc) = Len(sensorData) + 1
            /\ doc[1].cells = ExportHeader
            /\ \A i \in 1..Len(sensorData) : doc[i + 1].cells = ExportRow(sensorData[i])
ExportHasHeaderAndRowsWitness ==
    /\ req.op = "download" /\ Len(sensorData) >= 3
    /\ Len(downloads[Len(downloads)].workbook) = Len(sensorData) + 1

\* C11: once a download has been answered, the file the request wrote is no
\* longer on the file system.
NoFileAfterDownload == req.op = "download-sent" => file = NoFile

\* The steps of the three GET routes.
ReadOps == {"query", "latest", "download", "download-written", "download-sent"}

\* C12: the three GET routes leave the store and every stored reading as
\* they were; the store changes only in a POST answered 200.
ReadsLeaveStore ==
    [][/\ req'.op \in ReadOps => sensorData' = sensorData
       /\ sensorData' # sensorData => (req'.op = "post" /\ res'.status = 200)]_vars
\* Each GET route has answered from a store that holds readings.
ReadsLeaveStoreWitness ==
    /\ req.op = "download-sent" /\ Len(res.body.document) > 1
    /\ Len(sensorData) = Len(accepted) /\ Len(sensorData) > 1

\* C13: the id and the timestamp of a stored reading are read from the
\* server clock while the POST is handled, also when the payload brings a
\* timestamp or an id of its own.
ClockAssignsIdAndTimestamp ==
    [][(req'.op = "post" /\ res'.status = 200) =>
          /\ now' >= now
          /\ sensorData'[1].id = ToString(now')
          /\ \E t \in now..now' : sensorData'[1].timestamp = getISTDateTime(t)]_vars
\* A payload with a timestamp and an id of its own was stored.
ClockAssignsIdAndTimestampWitness ==
    /\ Stored /\ req.body.id.type = "string" /\ req.body.timestamp.type = "string"
    /\ sensorData[1].id = ToString(now)

\* The readings of a response or of a document, whichever the route sends.
Observed ==
    CASE res.op = "query" -> Len(res.body.data)
      [] res.op = "download" -> Len(res.body.document) - 1
      [] OTHER -> 0

\* C16: whatever the order in which the requests are served, no response
\* and no document shows more than 50 readings, and a reading that was
\* stored stays in the store until 50 later ones have been stored.
NoTornReadNoLostUpdate ==
    /\ Observed <= Capacity
    /\ \A d \in 1..Len(downloads) : Len(downloads[d].workbook) - 1 <= Capacity
    /\ \A k \in 1..Len(accepted) :
          k + Capacity > Len(accepted) =>
              \E i \in 1..Len(sensorData) : sensorData[i] = accepted[k]
\* A query for more than the store keeps, answered after the first eviction.
NoTornReadNoLostUpdateWitness ==
    /\ req.op = "query" /\ req.limit = JsString(<<"6", "0">>)
    /\ Len(accepted) > Capacity /\ Len(res.body.data) = Capacity

\* C17: a download is answered with the document its own request built from
\* the store, whatever other downloads wrote to the file in the meantime.
DownloadSendsOwnDocument ==
    req.op = "download-sent" => res.body.document = req.workbook

(***************************************************************************)
(* Properties of the dashboard                                             *)
(***************************************************************************)
\* C14: after a successful poll that returned a non-empty window, latestData
\* is the element the server returned at index 0, the newest of the window.
LatestDataIsNewestReturned ==
    (req.op = "poll" /\ Len(res.body.data) > 0) => latestData = <<res.body.data[1]>>

\* C15: every fetch after the one on mount was started by the interval
\* firing, whatever the fetches before it returned.
LaterFetchesStartOnInterval == fetched > 1 => fetchCause = "interval"

\* The clock value a reading's id was taken from.
TimeOf(r) == CHOOSE t \in StartMs..now : DateNowString(t) = r.id

\* C18: the window the dashboard plots holds at most 20 readings, oldest
\* first and newest last, a placeholder of a failed poll included.
WindowBoundedChronological ==
    /\ Len(appSensorData) <= EffectiveLimit(PollLimit)
    /\ \A i \in 1..Len(appSensorData) : \A j \in i..Len(appSensorData) :
           TimeOf(appSensorData[i]) <= TimeOf(appSensorData[j])
====
